---- MODULE Spec2Model ----
(***************************************************************************)
(* Model of src/fetch_list.py: the resumable paginated fetch of GitHub     *)
(* discussions.  One process runs fetch_discussions several times in a     *)
(* row (a restart after each end); the disk (checkpoint file, final        *)
(* artifact) survives between runs, the locals do not.                     *)
(*                                                                         *)
(* The environment chooses the source pages once, and for every request    *)
(* the kind of response; it may deliver a KeyboardInterrupt between any    *)
(* two steps, and it may make a file write fail.                           *)
(***************************************************************************)
EXTENDS Integers, Sequences, FiniteSets, TLC

\* ------------------------------------------------------------- bounds
MaxPages == 2
MaxRuns == 2

\* ------------------------------------------------- program constants
\* execute_graphql_with_retry(query, token, max_retries=3, retry_delay=5)
max_retries == 3
retry_delay == 5
\* the buffer added to a rate-limit wait (line 86)
RateLimitBuffer == 5

\* ----------------------------------------------------- the environment
\* Number of items a source page may hold.
PageSizes == {0, 2}

\* int(time.time()) when a rate-limit response is handled, and the
\* X-RateLimit-Reset header of that response (0: header absent).
NowValues == {100}
ResetValues == {0, 90, 110}

\* Python's None; a cursor token is a one-element tuple <<k>>.
None == <<>>

\* Outcomes of writing a file: the write completes, open() raises and the
\* file is left as it was, or the write raises after open() truncated it.
WriteOutcomes == {"ok", "open_fail", "write_fail"}

VARIABLES
  sizes,            \* source: sizes[k] = number of items of page k
  ckptFile,         \* disk: CHECKPOINT_FILE
  outFile,          \* disk: OUTPUT_FILE (OUTPUT_GZIP_FILE holds the same document)
  run,              \* number of runs of fetch_discussions started
  pc,               \* position of the current run
  all_discussions,  \* local of fetch_discussions
  cursor,           \* local of fetch_discussions
  has_more,         \* local of fetch_discussions
  page_count,       \* local of fetch_discussions
  attempt,          \* loop variable of execute_graphql_with_retry
  log,              \* per call of the executor: one entry per request
  data,             \* value returned by the executor to line 188
  outcome,          \* how the run ended: "none", "returned", "raised", "interrupt"
  loopExit,         \* how the while loop was left in this run
  finalizerCalled,  \* save_final_result was invoked in this run
  ioFail,           \* a file write of this run raised or was cut after it began
  lastSave,         \* outcome of this run's latest save_checkpoint call
  intAt,            \* pc at which a KeyboardInterrupt landed in this run
  errCause,         \* what raised into the except Exception handler
  loaded,           \* the run started from a parsed checkpoint file
  prevRun           \* how the previous run ended

vars == <<sizes, ckptFile, outFile, run, pc, all_discussions, cursor,
          has_more, page_count, attempt, log, data, outcome,
          loopExit, finalizerCalled, ioFail, lastSave, intAt, errCause, loaded,
          prevRun>>

\* ------------------------------------------------------------ helpers
Max(a, b) == IF a >= b THEN a ELSE b

RECURSIVE SumTo(_, _)
SumTo(s, k) == IF k = 0 THEN 0 ELSE SumTo(s, k - 1) + s[k]

\* The source: page k holds sizes[k] discussions, numbered consecutively.
NumPages == Len(sizes)
PageItems(k) ==
  IF k \in 1..NumPages THEN [j \in 1..sizes[k] |-> SumTo(sizes, k - 1) + j]
  ELSE <<>>
HasNextPage(k) == k < NumPages
EndCursor(k) == <<k>>

RECURSIVE PagesUpTo(_)
PagesUpTo(k) == IF k = 0 THEN <<>> ELSE PagesUpTo(k - 1) \o PageItems(k)
AllItems == PagesUpTo(NumPages)

\* Mutant: the query never carries an after clause.
get_discussions_query_no_after(c) == [after |-> None]

\* get_discussions_query: the after clause is present iff the cursor is truthy.
get_discussions_query(c) == IF c # None THEN [after |-> c] ELSE [after |-> None]

\* The GraphQL server: the page a query selects.
ServedPage(query) == IF query.after = None THEN 1 ELSE query.after[1] + 1

\* ------------------------------------------------------- disk records
Absent == [st |-> "absent"]
Corrupt == [st |-> "corrupt"]

\* Mutant: total_count counts the pages of this run, not the records.
MakeCheckpointCountPages(discs, cur, more) ==
  [st |-> "ok", discussions |-> discs, last_cursor |-> cur,
   has_more |-> more, total_count |-> page_count]

\* The checkpoint dictionaries built at lines 220-225, 244-249, 257-262.
MakeCheckpoint(discs, cur, more) ==
  [st |-> "ok", discussions |-> discs, last_cursor |-> cur,
   has_more |-> more, total_count |-> Len(discs)]

\* load_checkpoint's default.
DefaultCheckpoint == MakeCheckpoint(<<>>, None, TRUE)

\* load_checkpoint: the parsed file, or the default when it is absent or
\* cannot be parsed.
load_checkpoint == IF ckptFile.st = "ok" THEN ckptFile ELSE DefaultCheckpoint

\* The file after open(..., 'w') + json.dump: written, not opened (open
\* raised, or a KeyboardInterrupt arrived before it truncated the file), or
\* truncated by open and left unparsable because json.dump raised or a
\* KeyboardInterrupt arrived inside it.
Written(old, new, w) ==
  CASE w = "ok" -> new
    [] w \in {"open_fail", "interrupted_before_open"} -> old
    [] w \in {"write_fail", "interrupted"} -> Corrupt

\* Where a KeyboardInterrupt can cut a call of save_checkpoint: before
\* open has truncated the file (lines 128-129), or inside json.dump.
SaveInterrupts == {"interrupted_before_open", "interrupted"}

\* The outcomes of a write after which the file is not known to be whole.
Incomplete(w) == w \notin {"ok", "interrupted_before_open"}

\* output_data of save_final_result.
MakeOutput(discs) ==
  [st |-> "ok", total_count |-> Len(discs), discussions |-> discs]


\* ------------------------------------------------------------- Init
NoData == [kind |-> "unset", shape |-> "none", page |-> 0]
NoRun == "none"

Init ==
  /\ sizes \in UNION {[1..n -> PageSizes] : n \in 1..MaxPages}
  /\ ckptFile = Absent
  /\ outFile = Absent
  /\ run = 0
  /\ pc = "idle"
  /\ all_discussions = <<>>
  /\ cursor = None
  /\ has_more = TRUE
  /\ page_count = 0
  /\ attempt = 0
  /\ log = <<>>
  /\ data = NoData
  /\ outcome = "none"
  /\ loopExit = "none"
  /\ finalizerCalled = FALSE
  /\ ioFail = FALSE
  /\ lastSave = "none"
  /\ intAt = "none"
  /\ errCause = "none"
  /\ loaded = FALSE
  /\ prevRun = NoRun

disk == <<ckptFile, outFile>>
locals == <<all_discussions, cursor, has_more, page_count>>
executor == <<attempt, log, data>>
history == <<loopExit, finalizerCalled, ioFail, lastSave, intAt, errCause,
             loaded, prevRun>>

\* The positions between two pages: every page received so far is merged,
\* and the cursor and has_more are those of the last merged page.
BetweenPages == {"loop", "exec", "check", "save", "pace"}

\* What a run remembers of the run before it: whether that run was stopped
\* by a KeyboardInterrupt that landed between two pages.
RunSummary ==
  CASE pc = "idle" -> "none"
    [] outcome = "returned" /\ intAt \in BetweenPages -> "interrupted_between_pages"
    [] OTHER -> "other"

\* ------------------------------------------------- process start, load
\* A new process runs the script: __main__ calls fetch_discussions.
BeginRun ==
  /\ pc \in {"idle", "done"}
  /\ run < MaxRuns
  /\ run' = run + 1
  /\ pc' = "load"
  /\ all_discussions' = <<>>
  /\ cursor' = None
  /\ has_more' = TRUE
  /\ page_count' = 0
  /\ attempt' = 0
  /\ log' = <<>>
  /\ data' = NoData
  /\ outcome' = "none"
  /\ loopExit' = "none"
  /\ finalizerCalled' = FALSE
  /\ ioFail' = FALSE
  /\ lastSave' = "none"
  /\ intAt' = "none"
  /\ errCause' = "none"
  /\ loaded' = FALSE
  /\ prevRun' = RunSummary
  /\ UNCHANGED <<sizes, disk>>

\* Lines 169-171: what the run takes from the loaded checkpoint.
\* Mutant: the run starts with an empty accumulator whatever was stored.
ResumeDiscussionsEmpty(cp) == <<>>
ResumeDiscussions(cp) == cp.discussions
\* Mutant: the resumed run starts again from the first page.
ResumeCursorFromStart(cp) == None
ResumeCursor(cp) == cp.last_cursor
\* Mutant: a resumed run always enters the loop.
ResumeHasMoreAlways(cp) == TRUE
ResumeHasMore(cp) == cp.has_more

\* Lines 165-180.
LoadCheckpoint ==
  /\ pc = "load"
  /\ all_discussions' = ResumeDiscussions(load_checkpoint)
  /\ cursor' = ResumeCursor(load_checkpoint)
  /\ has_more' = ResumeHasMore(load_checkpoint)
  /\ page_count' = 0
  /\ loaded' = (ckptFile.st = "ok")
  /\ pc' = "loop"
  /\ UNCHANGED <<sizes, disk, run, executor, outcome, loopExit,
                 finalizerCalled, ioFail, lastSave, intAt, errCause, prevRun>>

\* ------------------------------------------------------ the while loop
\* Lines 183-188, has_more true: the next page is requested.
WhileEnter ==
  /\ pc = "loop"
  /\ has_more
  /\ page_count' = page_count + 1
  /\ attempt' = 0
  /\ log' = <<>>
  /\ data' = NoData
  /\ pc' = "exec"
  /\ UNCHANGED <<sizes, disk, run, all_discussions, cursor, has_more,
                 outcome, history>>

\* Line 183, has_more false: the loop ends normally.
WhileExit ==
  /\ pc = "loop"
  /\ ~has_more
  /\ loopExit' = "has_more_false"
  /\ pc' = "finalize"
  /\ UNCHANGED <<sizes, disk, run, locals, executor, outcome,
                 finalizerCalled, ioFail, lastSave, intAt, errCause, loaded, prevRun>>


\* ------------------------------------------- execute_graphql_with_retry
\* One entry of the call's log: the response to one request and the sleep
\* the executor made after it (0: none).
Entry(resp, slept) == [resp |-> resp, slept |-> slept]

\* Mutant: the same wait after every failed transport attempt.
TransportBackoffFixed(a) == retry_delay

\* Line 102: the wait after a failed transport attempt.
TransportBackoff(a) == retry_delay * (a + 1)

\* Line 86: the wait after a rate-limit response.
RateLimitWait(reset, now) == Max(reset - now, 0) + RateLimitBuffer

\* Mutant: the wait grows with the attempt as for transport failures.
ErrorDelayGrowing(a) == retry_delay * (a + 1)

\* Line 92: the wait after another GraphQL error.
ErrorDelay(a) == retry_delay

\* Lines 91 and 101: is another attempt left?
CanRetry(a) == a < max_retries - 1

\* The for statement of line 63: the value of attempt after a continue.
AfterContinue(a) == a + 1

\* Line 108: the value returned when the for loop runs out.
ReturnNone == [kind |-> "None", shape |-> "none", page |-> 0]

\* Lines 65-73 raise a RequestException; lines 99-106.
ExecTransportError ==
  /\ pc = "exec"
  /\ IF CanRetry(attempt)
       THEN /\ log' = Append(log, Entry("transport", TransportBackoff(attempt)))
            /\ attempt' = attempt + 1
            /\ pc' = "exec"
            /\ errCause' = errCause
       ELSE /\ log' = Append(log, Entry("transport", 0))
            /\ attempt' = attempt
            /\ pc' = "handler_exc"
            /\ errCause' = "fetch"
  /\ UNCHANGED <<sizes, disk, run, locals, data, outcome, loopExit,
                 finalizerCalled, ioFail, lastSave, intAt, loaded, prevRun>>

\* Lines 91-95: a GraphQL error that is not waited out as a rate limit.
GraphQLErrorPath(resp) ==
  IF CanRetry(attempt)
    THEN /\ log' = Append(log, Entry(resp, ErrorDelay(attempt)))
         /\ attempt' = AfterContinue(attempt)
         /\ pc' = "exec"
         /\ errCause' = errCause
         /\ data' = data
    ELSE /\ log' = Append(log, Entry(resp, 0))
         /\ attempt' = attempt
         /\ pc' = "handler_exc"
         /\ errCause' = "fetch"
         /\ data' = data

\* Lines 78-89: the first error message contains "rate limit".  With a
\* reset time the executor sleeps and continues; the for loop then ends
\* when no value of range(max_retries) is left, and line 108 returns None.
ExecRateLimit ==
  /\ pc = "exec"
  /\ \E reset \in ResetValues, now \in NowValues :
       IF reset # 0
         THEN /\ log' = Append(log, Entry("rate_limit", RateLimitWait(reset, now)))
              /\ attempt' = AfterContinue(attempt)
              /\ errCause' = errCause
              /\ IF AfterContinue(attempt) < max_retries
                   THEN pc' = "exec" /\ data' = data
                   ELSE pc' = "check" /\ data' = ReturnNone
         ELSE GraphQLErrorPath("rate_limit_no_reset")
  /\ UNCHANGED <<sizes, disk, run, locals, outcome, loopExit,
                 finalizerCalled, ioFail, lastSave, intAt, loaded, prevRun>>

\* Lines 78-95: any other GraphQL error list.
ExecGraphQLError ==
  /\ pc = "exec"
  /\ GraphQLErrorPath("graphql_error")
  /\ UNCHANGED <<sizes, disk, run, locals, outcome, loopExit,
                 finalizerCalled, ioFail, lastSave, intAt, loaded, prevRun>>

\* The payloads a 2xx response without an error list can carry: the page
\* the query selects (well-formed, or lacking a part the controller reads),
\* an empty object, or an object without the data section.
Payloads ==
  {[kind |-> "page", shape |-> sh, page |-> ServedPage(get_discussions_query(cursor))] :
     sh \in {"good", "bad_shape", "no_hasNextPage", "no_endCursor"}}
  \cup {[kind |-> k, shape |-> "none", page |-> 0] : k \in {"empty", "no_data"}}

\* Line 97: a response without an error list is returned as it is.
ExecSuccess ==
  /\ pc = "exec"
  /\ \E p \in Payloads :
       /\ data' = p
       /\ log' = Append(log, Entry("ok", 0))
  /\ pc' = "check"
  /\ UNCHANGED <<sizes, disk, run, locals, attempt, outcome, history>>


\* ------------------------------------------ the loop body, lines 190-230
\* The executor's frame is gone once its result has been looked at.
ClearCall == attempt' = 0 /\ log' = <<>>

\* Line 190: `not data or 'data' not in data`.
LacksData(d) == d.kind \in {"None", "empty", "no_data"}

\* Lines 190-192: the break leaves the while loop; control continues with
\* the statement after the loop.
AfterBreak == "finalize"

BreakOnNoData ==
  /\ pc = "check"
  /\ LacksData(data)
  /\ loopExit' = "break"
  /\ pc' = AfterBreak
  /\ ClearCall
  /\ UNCHANGED <<sizes, disk, run, locals, data, outcome,
                 finalizerCalled, ioFail, lastSave, intAt, errCause, loaded, prevRun>>

\* Lines 194-196 raise KeyError when the data section lacks
\* repository, discussions, edges or pageInfo.
ExtractFail ==
  /\ pc = "check"
  /\ ~LacksData(data)
  /\ data.shape = "bad_shape"
  /\ errCause' = "key"
  /\ pc' = "handler_exc"
  /\ ClearCall
  /\ UNCHANGED <<sizes, disk, run, locals, data, outcome, loopExit,
                 finalizerCalled, ioFail, lastSave, intAt, loaded, prevRun>>

\* Lines 194-211: the page's records are appended in arrival order.
MergePage ==
  /\ pc = "check"
  /\ ~LacksData(data)
  /\ data.shape # "bad_shape"
  /\ all_discussions' = all_discussions \o PageItems(data.page)
  /\ pc' = "set_has_more"
  /\ ClearCall
  /\ UNCHANGED <<sizes, disk, run, cursor, has_more, page_count, data,
                 outcome, history>>

\* Line 214.
SetHasMore ==
  /\ pc = "set_has_more"
  /\ IF data.shape = "no_hasNextPage"
       THEN /\ errCause' = "key"
            /\ pc' = "handler_exc"
            /\ has_more' = has_more
       ELSE /\ has_more' = HasNextPage(data.page)
            /\ pc' = "set_cursor"
            /\ errCause' = errCause
  /\ UNCHANGED <<sizes, disk, run, all_discussions, cursor, page_count,
                 executor, outcome, loopExit, finalizerCalled, ioFail, lastSave, intAt,
                 loaded, prevRun>>

\* Line 215: page_info['endCursor'] if has_more else None.
NextCursor(more, page) == IF more THEN EndCursor(page) ELSE None

SetCursor ==
  /\ pc = "set_cursor"
  /\ IF has_more /\ data.shape = "no_endCursor"
       THEN /\ errCause' = "key"
            /\ pc' = "handler_exc"
            /\ cursor' = cursor
       ELSE /\ cursor' = NextCursor(has_more, data.page)
            /\ pc' = "save"
            /\ errCause' = errCause
  /\ UNCHANGED <<sizes, disk, run, all_discussions, has_more, page_count,
                 executor, outcome, loopExit, finalizerCalled, ioFail, lastSave, intAt,
                 loaded, prevRun>>

\* save_checkpoint, lines 128-133: a failure is printed and swallowed.
save_checkpoint(cp, w) ==
  /\ ckptFile' = Written(ckptFile, cp, w)
  /\ ioFail' = (ioFail \/ Incomplete(w))
  /\ lastSave' = w

\* Lines 220-226.
SavePage ==
  /\ pc = "save"
  /\ \E w \in WriteOutcomes :
       save_checkpoint(MakeCheckpoint(all_discussions, cursor, has_more), w)
  /\ pc' = "pace"
  /\ data' = NoData
  /\ UNCHANGED <<sizes, outFile, run, locals, attempt, log, outcome,
                 loopExit, finalizerCalled, intAt, errCause, loaded, prevRun>>

\* Lines 128-130 called from line 226: a KeyboardInterrupt inside
\* save_checkpoint is not an Exception, passes line 132 and reaches line
\* 242, with the checkpoint file untouched or truncated.
SavePageInterrupted ==
  /\ pc = "save"
  /\ \E w \in SaveInterrupts :
       save_checkpoint(MakeCheckpoint(all_discussions, cursor, has_more), w)
  /\ intAt' = pc
  /\ pc' = "handler_int"
  /\ UNCHANGED <<sizes, outFile, run, locals, executor, outcome,
                 loopExit, finalizerCalled, errCause, loaded, prevRun>>

\* Lines 229-230 and the jump back to line 183.
Pace ==
  /\ pc = "pace"
  /\ pc' = "loop"
  /\ UNCHANGED <<sizes, disk, run, locals, executor, outcome, history>>

\* ------------------------------------------- after the loop, 232-240
\* save_final_result, lines 137-160: the JSON file is written, then the
\* gzip copy of the same document; a failure of either write raises.  The
\* outcomes: both written, the JSON write fails, the gzip write fails.
FinalOutcomes == {"ok", "open_fail", "write_fail", "gzip_fail"}

\* Mutant: save_final_result swallows a write failure as save_checkpoint
\* does, and the run goes on to remove the checkpoint.
FinalFailureSwallowed == "cleanup"

\* save_final_result has no try: a failed write raises out of line 233
\* into the except Exception clause of line 254.
AfterFinalFailure == "handler_exc"

SaveFinal ==
  /\ pc = "finalize"
  /\ finalizerCalled' = TRUE
  /\ \E w \in FinalOutcomes :
       /\ outFile' = Written(outFile, MakeOutput(all_discussions),
                             IF w = "gzip_fail" THEN "ok" ELSE w)
       /\ ioFail' = (ioFail \/ w # "ok")
       /\ IF w = "ok"
            THEN pc' = "cleanup" /\ errCause' = errCause
            ELSE pc' = AfterFinalFailure /\ errCause' = "final"
  /\ UNCHANGED <<sizes, ckptFile, run, locals, executor, outcome, loopExit,
                 lastSave, intAt, loaded, prevRun>>

\* A KeyboardInterrupt inside save_final_result reaches line 242: before
\* open of line 146 has truncated the JSON file (lines 138-146) the file is
\* as it was; inside json.dump of line 147 it is left truncated; after it
\* was closed (lines 149-155) it is complete and the gzip file untouched;
\* inside the gzip write of lines 155-156 it is complete and the gzip file
\* is not.
FinalInterrupts == {"interrupted_before_open", "interrupted",
                    "interrupted_before_gzip", "gzip_interrupted"}

SaveFinalInterrupted ==
  /\ pc = "finalize"
  /\ finalizerCalled' = TRUE
  /\ \E w \in FinalInterrupts :
       /\ outFile' = Written(outFile, MakeOutput(all_discussions),
                             IF w \in {"interrupted_before_gzip", "gzip_interrupted"}
                               THEN "ok" ELSE w)
       /\ ioFail' = (ioFail \/ w \in {"interrupted", "gzip_interrupted"})
  /\ intAt' = pc
  /\ pc' = "handler_int"
  /\ UNCHANGED <<sizes, ckptFile, run, locals, executor, outcome, loopExit,
                 lastSave, errCause, loaded, prevRun>>

\* os.remove of line 237 succeeds, or raises OSError into line 254.
RemoveOutcomes == {"ok", "remove_fail"}

\* Lines 236-238: the checkpoint file is removed when it exists.
Cleanup ==
  /\ pc = "cleanup"
  /\ IF ckptFile.st = "absent"
       THEN /\ pc' = "return"
            /\ UNCHANGED <<ckptFile, errCause>>
       ELSE \E r \in RemoveOutcomes :
              IF r = "ok"
                THEN /\ ckptFile' = Absent
                     /\ pc' = "return"
                     /\ errCause' = errCause
                ELSE /\ ckptFile' = ckptFile
                     /\ pc' = "handler_exc"
                     /\ errCause' = "remove"
  /\ UNCHANGED <<sizes, outFile, run, locals, executor, outcome, loopExit,
                 finalizerCalled, ioFail, lastSave, intAt, loaded, prevRun>>

\* Line 240.
ReturnAll ==
  /\ pc = "return"
  /\ outcome' = "returned"
  /\ pc' = "done"
  /\ UNCHANGED <<sizes, disk, run, locals, executor, history>>

\* --------------------------------------------------------- the handlers
\* Line 252 returns, line 264 re-raises.
\* Mutant: the error handler returns the accumulator like the interrupt handler.
ErrorHandlerReturns == "returned"
InterruptHandlerOutcome == "returned"
ErrorHandlerOutcome == "raised"

\* Lines 244-249.
InterruptCheckpoint == MakeCheckpoint(all_discussions, cursor, has_more)

\* Lines 242-250.
HandleInterrupt ==
  /\ pc = "handler_int"
  /\ \E w \in WriteOutcomes : save_checkpoint(InterruptCheckpoint, w)
  /\ pc' = "handler_int_saved"
  /\ ClearCall
  /\ data' = NoData
  /\ UNCHANGED <<sizes, outFile, run, locals, outcome, loopExit,
                 finalizerCalled, intAt, errCause, loaded, prevRun>>

\* Lines 251-252.
ReturnInterrupted ==
  /\ pc = "handler_int_saved"
  /\ outcome' = InterruptHandlerOutcome
  /\ pc' = "done"
  /\ UNCHANGED <<sizes, disk, run, locals, executor, history>>

\* Mutant: the handler saves the checkpoint as it was last stored instead
\* of rebuilding it from the locals.
ErrorCheckpointStale == load_checkpoint

\* Lines 257-262.
ErrorCheckpoint == MakeCheckpoint(all_discussions, cursor, has_more)

\* Lines 254-263.
HandleError ==
  /\ pc = "handler_exc"
  /\ \E w \in WriteOutcomes : save_checkpoint(ErrorCheckpoint, w)
  /\ pc' = "handler_exc_saved"
  /\ ClearCall
  /\ data' = NoData
  /\ UNCHANGED <<sizes, outFile, run, locals, outcome, loopExit,
                 finalizerCalled, intAt, errCause, loaded, prevRun>>

\* Line 264.
Reraise ==
  /\ pc = "handler_exc_saved"
  /\ outcome' = ErrorHandlerOutcome
  /\ pc' = "done"
  /\ UNCHANGED <<sizes, disk, run, locals, executor, history>>

\* ------------------------------------------------------ KeyboardInterrupt
\* The positions inside the try block of lines 182-240.
TryPcs == {"loop", "exec", "check", "set_has_more", "set_cursor", "save",
           "pace", "finalize", "cleanup", "return"}

\* A KeyboardInterrupt raised inside the try block reaches line 242.
Interrupt ==
  /\ pc \in TryPcs
  /\ intAt' = pc
  /\ pc' = "handler_int"
  /\ UNCHANGED <<sizes, disk, run, locals, executor, outcome, loopExit,
                 finalizerCalled, ioFail, lastSave, errCause, loaded, prevRun>>

\* A KeyboardInterrupt raised before the try block (lines 165-180) or
\* inside a handler is caught by nothing in fetch_discussions.
UncaughtPcs == {"load", "handler_int", "handler_exc", "handler_int_saved",
                "handler_exc_saved"}

InterruptUncaught ==
  /\ pc \in UncaughtPcs
  /\ intAt' = pc
  /\ outcome' = "interrupt"
  /\ pc' = "done"
  /\ ClearCall
  /\ data' = NoData
  /\ UNCHANGED <<sizes, disk, run, locals, loopExit,
                 finalizerCalled, ioFail, lastSave, errCause, loaded, prevRun>>

\* A KeyboardInterrupt inside a handler's call of save_checkpoint (lines
\* 250, 263) passes line 132 and ends the process, with the checkpoint
\* file untouched or truncated.
InterruptHandlerSave ==
  /\ pc \in {"handler_int", "handler_exc"}
  /\ \E w \in SaveInterrupts :
       save_checkpoint(MakeCheckpoint(all_discussions, cursor, has_more), w)
  /\ intAt' = pc
  /\ outcome' = "interrupt"
  /\ pc' = "done"
  /\ ClearCall
  /\ data' = NoData
  /\ UNCHANGED <<sizes, outFile, run, locals, loopExit,
                 finalizerCalled, errCause, loaded, prevRun>>

\* ---------------------------------------------------- the specification
Next ==
  \/ BeginRun
  \/ LoadCheckpoint
  \/ WhileEnter
  \/ WhileExit
  \/ ExecTransportError
  \/ ExecRateLimit
  \/ ExecGraphQLError
  \/ ExecSuccess
  \/ BreakOnNoData
  \/ ExtractFail
  \/ MergePage
  \/ SetHasMore
  \/ SetCursor
  \/ SavePage
  \/ SavePageInterrupted
  \/ Pace
  \/ SaveFinal
  \/ SaveFinalInterrupted
  \/ Cleanup
  \/ ReturnAll
  \/ HandleInterrupt
  \/ ReturnInterrupted
  \/ HandleError
  \/ Reraise
  \/ Interrupt
  \/ InterruptUncaught
  \/ InterruptHandlerSave

Spec == Init /\ [][Next]_vars


\* ------------------------------------------------- __main__, 267-280
\* Mutant: the top level swallows the failure and exits normally.
MainExitCodeAlwaysZero(o) == 0

\* The exit code of the process: fetch_discussions returned (the script
\* runs to its end), raised an Exception (line 280: exit(1)), or let a
\* KeyboardInterrupt through, which `except Exception` does not catch and
\* the interpreter turns into exit code 130.
MainExitCode(o) ==
  CASE o = "returned" -> 0
    [] o = "raised" -> 1
    [] OTHER -> 130

\* Line 270: the caller prints the completion message exactly when
\* fetch_discussions returned.
ReportedComplete == pc = "done" /\ outcome = "returned"

\* ================================================================ claims
Last(q) == q[Len(q)]

\* The run has ended the way the caller of fetch_discussions sees it.
Ended == pc = "done"

\* ---------------------------------------------------------------- C1
\* C1: save_final_result is invoked only when the while loop ended because
\* has_more became false, never after a break on an empty or data-less
\* response and never after a fatal error.
C1_FinalizerOnlyOnNormalCompletion ==
  finalizerCalled => loopExit = "has_more_false"

\* ---------------------------------------------------------------- C2
\* The first run stopped on a response without data section for page k+1
\* after pages 1..k were merged, with no interrupt and no failed write.
StoppedOnMissingData ==
  /\ Ended
  /\ run = 1
  /\ loopExit = "break"
  /\ data.kind = "no_data"
  /\ page_count >= 2
  /\ intAt = "none"
  /\ ~ioFail

\* C2: when page k succeeds with hasNextPage=true and the response for page
\* k+1 has no data section, fetch_discussions returns without raising, the
\* checkpoint on disk holds exactly the items of pages 1..k with
\* total_count their number, has_more=true and last_cursor = page k's
\* endCursor, and no final artifact has been written.
C2_MissingDataKeepsCheckpoint ==
  StoppedOnMissingData =>
    /\ outcome = "returned"
    /\ ckptFile = [st |-> "ok",
                   discussions |-> PagesUpTo(page_count - 1),
                   last_cursor |-> EndCursor(page_count - 1),
                   has_more |-> TRUE,
                   total_count |-> Len(PagesUpTo(page_count - 1))]
    /\ outFile = Absent

\* ---------------------------------------------------------------- C3
\* The run went through the loop to has_more = false and finalized,
\* without being interrupted itself.
CompletedNormally ==
  /\ Ended
  /\ outcome = "returned"
  /\ loopExit = "has_more_false"
  /\ intAt = "none"

\* C3: a first run interrupted between two pages, followed by a second run
\* that resumes and runs to completion, ends with the same accumulated
\* sequence as an uninterrupted first run: the concatenation of the source
\* pages, every record once and in order; the final artifact holds it.
C3_IdempotentResume ==
  (CompletedNormally /\
     (run = 1 \/ (run = 2 /\ prevRun = "interrupted_between_pages"))) =>
    /\ all_discussions = AllItems
    /\ outFile = MakeOutput(AllItems)

\* A second run that loaded the checkpoint of an interrupted first run,
\* fetched the remaining pages and finalized.
C3_Witness ==
  /\ CompletedNormally
  /\ run = 2
  /\ prevRun = "interrupted_between_pages"
  /\ loaded
  /\ page_count >= 1
  /\ NumPages >= 2
  /\ Len(all_discussions) >= 4

\* ---------------------------------------------------------------- C4
\* C4: a rate-limit response that carries a reset time makes the executor
\* sleep at least the buffer and then issue another request with the
\* number of attempts left for other failures unchanged.
C4_RateLimitKeepsRetryBudget ==
  [][(pc = "exec" /\ Len(log') = Len(log) + 1 /\ Last(log').resp = "rate_limit") =>
       /\ Last(log').slept >= RateLimitBuffer
       /\ pc' = "exec"
       /\ attempt' = attempt]_vars

\* ---------------------------------------------------------------- C5
\* C5: a call of the executor that has terminated either returned the
\* parsed payload of a response without error list, or raised after
\* max_retries requests; it never returns without a payload.
C5_PayloadOrFailure ==
  /\ pc = "check" => (data.kind # "None" /\ Last(log).resp = "ok")
  /\ (pc = "handler_exc" /\ errCause = "fetch") =>
       (Len(log) = max_retries /\ Last(log).resp # "ok")

\* ---------------------------------------------------------------- C6
\* Every request of the current call failed at the transport level.
AllTransport ==
  /\ log # <<>>
  /\ \A i \in 1..Len(log) : log[i].resp = "transport"

\* C6: when every request fails at the transport level the executor issues
\* exactly max_retries requests, sleeps retry_delay * i after the i-th
\* failure for i = 1 .. max_retries - 1, and then raises.
C6_RetryExhaustion ==
  (pc \in {"exec", "check", "handler_exc"} /\ AllTransport) =>
    /\ Len(log) <= max_retries
    /\ \A i \in 1..Len(log) :
         log[i].slept = IF i < max_retries THEN retry_delay * i ELSE 0
    /\ Len(log) < max_retries => pc = "exec"
    /\ Len(log) = max_retries => (pc = "handler_exc" /\ errCause = "fetch")

\* The executor has raised after max_retries transport failures.
C6_Witness ==
  /\ pc = "handler_exc"
  /\ errCause = "fetch"
  /\ AllTransport
  /\ Len(log) = max_retries

\* ---------------------------------------------------------------- C7
\* The disk holds everything the run has accumulated.
Persisted ==
  \/ (ckptFile.st = "ok" /\ ckptFile.discussions = all_discussions)
  \/ (outFile.st = "ok" /\ outFile.discussions = all_discussions)

\* The run ended in one of the two handlers of fetch_discussions.
EndedInHandler == Ended /\ (intAt # "none" \/ errCause # "none")

\* C7 as stated: every way a run that has accumulated items can end
\* (normal completion, abnormal stop, handled interruption, fatal error)
\* leaves on disk a checkpoint or a final artifact holding all of them.
C7_NoSilentDataLoss ==
  (Ended /\ outcome \in {"returned", "raised"} /\ all_discussions # <<>>)
    => Persisted

\* C7 as amended: the same, unless the run ended in a handler whose own
\* checkpoint write failed (save_checkpoint prints the failure and goes on).
C7_PersistedUnlessHandlerSaveFailed ==
  (Ended /\ outcome \in {"returned", "raised"}
     /\ ~(EndedInHandler /\ lastSave # "ok")) => Persisted

\* A fatal error after a page was merged, with the handler's save done.
C7_Witness ==
  /\ Ended
  /\ outcome = "raised"
  /\ errCause = "key"
  /\ lastSave = "ok"
  /\ Len(all_discussions) > 0
  /\ outFile = Absent
  /\ Persisted

\* ---------------------------------------------------------------- C8
\* C8: in every persisted checkpoint and in the terminal state,
\* has_more = false implies that last_cursor is absent.
C8_CursorInvariant ==
  /\ (ckptFile.st = "ok" /\ ~ckptFile.has_more) => ckptFile.last_cursor = None
  /\ (Ended /\ outcome \in {"returned", "raised"} /\ ~has_more) => cursor = None

\* ---------------------------------------------------------------- C9
\* C9: in every persisted checkpoint total_count equals the length of the
\* discussions stored in the same checkpoint.
C9_CountInvariant ==
  ckptFile.st = "ok" => ckptFile.total_count = Len(ckptFile.discussions)

\* A checkpoint with records written by the error handler.
C9_Witness ==
  /\ Ended
  /\ errCause = "fetch"
  /\ lastSave = "ok"
  /\ ckptFile.st = "ok"
  /\ ckptFile.total_count >= 2
  /\ ckptFile.total_count = Len(all_discussions)

\* --------------------------------------------------------------- C10
\* The executor raised after exhausting its retries and the run has ended.
EndedOnFetchError == Ended /\ errCause = "fetch"

\* C10 as stated: after a fetch error of the executor fetch_discussions
\* does not raise: it returns to its caller.
C10_FetchErrorReturns ==
  EndedOnFetchError => outcome = "returned"

\* C10 as amended: after a fetch error of the executor the controller
\* leaves the loop without running the finalizer, saves a checkpoint of
\* the accumulator, cursor and has_more, and re-raises to its caller
\* (unless a KeyboardInterrupt lands inside the handler).
C10_FetchErrorPropagates ==
  (EndedOnFetchError /\ intAt = "none") =>
    /\ outcome = "raised"
    /\ ~finalizerCalled
    /\ lastSave # "none"
    /\ lastSave = "ok" =>
         ckptFile = MakeCheckpoint(all_discussions, cursor, has_more)

\* A fetch error on a later page: re-raised, the merged pages saved.
C10_Witness ==
  /\ EndedOnFetchError
  /\ outcome = "raised"
  /\ lastSave = "ok"
  /\ Len(all_discussions) > 0
  /\ ckptFile.discussions = all_discussions

\* --------------------------------------------------------------- C11
\* C11: a KeyboardInterrupt that arrives inside the try block is caught,
\* the checkpoint is persisted with the current accumulator, cursor and
\* has_more, and the interruption is then propagated, so that the caller
\* does not report the interrupted run as a completed fetch.
C11_InterruptPropagates ==
  (Ended /\ intAt \in TryPcs /\ lastSave = "ok") =>
    /\ ckptFile = MakeCheckpoint(all_discussions, cursor, has_more)
    /\ ~ReportedComplete
    /\ MainExitCode(outcome) # 0

\* --------------------------------------------------------------- C12
\* The run ended on a KeyError of the loop body (lines 194-215), with no
\* KeyboardInterrupt on top of it.
EndedOnKeyError == Ended /\ errCause = "key" /\ intAt = "none"

\* C12: an unexpected failure inside the loop body makes fetch_discussions
\* save a checkpoint with the accumulator, cursor and has_more it has and
\* re-raise; the process exits with a non-zero code; the finalizer has not
\* run and the checkpoint has not been removed.
C12_LoopFailureIsFatal ==
  EndedOnKeyError =>
    /\ outcome = "raised"
    /\ MainExitCode(outcome) # 0
    /\ ~finalizerCalled
    /\ lastSave # "none"
    /\ lastSave = "ok" =>
         ckptFile = MakeCheckpoint(all_discussions, cursor, has_more)
    /\ lastSave = "write_fail" => ckptFile = Corrupt

\* A page whose pageInfo lacks a field, after an earlier page was stored.
C12_Witness ==
  /\ EndedOnKeyError
  /\ outcome = "raised"
  /\ lastSave = "ok"
  /\ page_count >= 2
  /\ ckptFile.st = "ok"
  /\ Len(ckptFile.discussions) > 0

\* --------------------------------------------------------------- C13
\* A run that started without a checkpoint.
FreshRun == pc \notin {"idle", "load"} /\ ~loaded

\* C13: in a run started without checkpoint the query for page i+1 carries
\* page i's endCursor (none for page 1); when such a run completes, the
\* final artifact holds the concatenation of the source pages in arrival
\* order, its total_count is the sum of the page sizes, and the checkpoint
\* file is gone.
C13_FreshRunFetchesAllPages ==
  /\ (FreshRun /\ pc = "exec") =>
       get_discussions_query(cursor).after =
         IF page_count = 1 THEN None ELSE EndCursor(page_count - 1)
  /\ (FreshRun /\ CompletedNormally) =>
       /\ page_count = NumPages
       /\ outFile = [st |-> "ok", total_count |-> SumTo(sizes, NumPages),
                     discussions |-> AllItems]
       /\ ckptFile = Absent

\* A completed two-page run with records on both pages.
C13_Witness ==
  /\ FreshRun
  /\ CompletedNormally
  /\ ~ioFail
  /\ page_count = 2
  /\ outFile.st = "ok"
  /\ outFile.total_count = 4
  /\ ckptFile = Absent

\* --------------------------------------------------------------- C14
\* C14: a step removes the checkpoint file only at lines 236-237 of a run
\* whose save_final_result has returned, with the final artifact of this
\* run's accumulator on disk; a run whose final write failed or was
\* interrupted never gets there, and when its handler's save succeeds the
\* checkpoint is on disk at the end.
C14_RemovedOnlyAfterFinal ==
  [][/\ (ckptFile.st # "absent" /\ ckptFile'.st = "absent") =>
          /\ pc = "cleanup"
          /\ finalizerCalled
          /\ errCause = "none"
          /\ outFile = MakeOutput(all_discussions)
     /\ (pc' = "done" /\ (errCause' = "final" \/ intAt' = "finalize")
           /\ lastSave' = "ok") =>
          ckptFile' = MakeCheckpoint(all_discussions, cursor, has_more)
    ]_vars

\* The final write failed after the last page was stored: the run ends
\* with the checkpoint on disk.
C14_Witness ==
  /\ Ended
  /\ errCause = "final"
  /\ loopExit = "has_more_false"
  /\ outcome = "raised"
  /\ ckptFile.st = "ok"
  /\ ckptFile.discussions = all_discussions
  /\ Len(all_discussions) > 0

\* --------------------------------------------------------------- C15
\* The run has just loaded (or failed to load) the checkpoint file, or is
\* making its first request; the file is still as load_checkpoint saw it.
JustLoaded == pc = "loop" /\ page_count = 0
FirstRequest == pc = "exec" /\ page_count = 1

\* C15: with the checkpoint file absent or unparsable the run starts with
\* an empty accumulator, no cursor and has_more = true, and its first
\* request asks for the first page; with a parsed checkpoint it starts
\* with exactly the stored discussions, last_cursor and has_more, and its
\* first request carries the stored last_cursor.
C15_StartState ==
  /\ (JustLoaded /\ ckptFile.st # "ok") =>
       /\ ~loaded
       /\ all_discussions = <<>>
       /\ cursor = None
       /\ has_more
       /\ ENABLED WhileEnter
  /\ (JustLoaded /\ ckptFile.st = "ok") =>
       /\ loaded
       /\ all_discussions = ckptFile.discussions
       /\ cursor = ckptFile.last_cursor
       /\ has_more = ckptFile.has_more
  /\ (FirstRequest /\ ckptFile.st # "ok") =>
       /\ all_discussions = <<>>
       /\ get_discussions_query(cursor).after = None
       /\ ServedPage(get_discussions_query(cursor)) = 1
  /\ (FirstRequest /\ ckptFile.st = "ok") =>
       /\ all_discussions = ckptFile.discussions
       /\ get_discussions_query(cursor).after = ckptFile.last_cursor

\* A first request that resumes from a stored page.
C15_Witness ==
  /\ FirstRequest
  /\ loaded
  /\ ckptFile.st = "ok"
  /\ ckptFile.last_cursor # None
  /\ Len(all_discussions) > 0

\* --------------------------------------------------------------- C16
\* Every response of the current call carried a GraphQL error list whose
\* first message is not a rate-limit message.
AllGraphQLErrors ==
  /\ log # <<>>
  /\ \A i \in 1..Len(log) : log[i].resp = "graphql_error"

\* C16: when every response carries such an error the executor issues
\* exactly max_retries requests, sleeps the fixed retry_delay after each
\* of them but the last, and raises after the last.
C16_GraphQLErrorExhaustion ==
  (pc \in {"exec", "check", "handler_exc"} /\ AllGraphQLErrors) =>
    /\ Len(log) <= max_retries
    /\ \A i \in 1..Len(log) :
         log[i].slept = IF i < max_retries THEN retry_delay ELSE 0
    /\ Len(log) < max_retries => pc = "exec"
    /\ Len(log) = max_retries => (pc = "handler_exc" /\ errCause = "fetch")

\* The executor has raised after max_retries GraphQL errors.
C16_Witness ==
  /\ pc = "handler_exc"
  /\ errCause = "fetch"
  /\ AllGraphQLErrors
  /\ Len(log) = max_retries

\* --------------------------------------------------------------- C17
\* The cursor that selects the page after page k.
CursorAfter(k) == IF k = 0 THEN None ELSE EndCursor(k)

\* A checkpoint pairs its records with its cursor: it holds the pages up
\* to the one whose endCursor it stores, or all pages and no cursor when
\* has_more is false.
Paired(cp) ==
  IF cp.has_more
    THEN \E k \in 0..NumPages :
           /\ cp.last_cursor = CursorAfter(k)
           /\ cp.discussions = PagesUpTo(k)
    ELSE /\ cp.last_cursor = None
         /\ cp.discussions = AllItems

\* C17: every checkpoint on disk, whether written by the per-page save, by
\* the interrupt handler or by the error handler, pairs the accumulator
\* with the matching cursor, so that resuming from it appends no stored
\* page a second time.
C17_CheckpointPairsCursor ==
  ckptFile.st = "ok" => Paired(ckptFile)

\* --------------------------------------------------------------- C18
\* The run has loaded a checkpoint that says has_more = false.
LoadedFinished ==
  /\ JustLoaded
  /\ ckptFile.st = "ok"
  /\ ~ckptFile.has_more

\* The run came from such a checkpoint to the statements after the loop
\* without a request.
FinishingLoaded ==
  /\ loaded
  /\ page_count = 0
  /\ pc \in {"finalize", "cleanup", "return"} \/ (Ended /\ CompletedNormally)

\* C18: a run that loads a checkpoint with has_more = false issues no
\* request, writes a final artifact holding exactly the checkpoint's
\* discussions with total_count their number, and then removes the
\* checkpoint.
C18_FinishedCheckpointIsFinalized ==
  /\ LoadedFinished =>
       /\ ~ENABLED WhileEnter
       /\ ENABLED WhileExit
       /\ all_discussions = ckptFile.discussions
  /\ (FinishingLoaded /\ pc = "finalize") =>
       /\ log = <<>>
       /\ ckptFile.st = "ok"
       /\ all_discussions = ckptFile.discussions
  /\ (FinishingLoaded /\ pc = "cleanup") =>
       /\ log = <<>>
       /\ ckptFile.st = "ok"
       /\ outFile = [st |-> "ok", total_count |-> Len(ckptFile.discussions),
                     discussions |-> ckptFile.discussions]
  /\ (FinishingLoaded /\ (pc = "return" \/ Ended)) =>
       /\ log = <<>>
       /\ outFile = MakeOutput(all_discussions)
       /\ ckptFile = Absent

\* Such a run has ended: records in the artifact, the checkpoint gone.
C18_Witness ==
  /\ FinishingLoaded
  /\ Ended
  /\ outFile.st = "ok"
  /\ outFile.total_count > 0
  /\ ckptFile = Absent

\* ------------------------------------------------------- termination
\* The pages the source still has to serve from the current cursor on.
Remaining == NumPages + 1 - ServedPage(get_discussions_query(cursor))

\* The width of one page's band of the measure.
RankBand == 20

\* A measure of the work a run has left: the pages still to fetch, then
\* the position inside the handling of one page, then the attempts the
\* executor has left.
Rank ==
  CASE pc = "load" -> (NumPages + 2) * RankBand
    [] pc = "loop" -> IF has_more THEN Remaining * RankBand + 10 ELSE 7
    [] pc = "exec" -> Remaining * RankBand + 9 - attempt
    [] pc = "check" -> Remaining * RankBand + 6
    [] pc = "set_has_more" -> Remaining * RankBand + 5
    [] pc = "set_cursor" -> Remaining * RankBand + 4
    [] pc = "save" -> IF has_more THEN Remaining * RankBand + 12 ELSE 9
    [] pc = "pace" -> IF has_more THEN Remaining * RankBand + 11 ELSE 8
    [] pc = "finalize" -> 6
    [] pc = "cleanup" -> 5
    [] pc = "return" -> 4
    [] pc = "handler_int" -> 3
    [] pc = "handler_exc" -> 2
    [] pc \in {"handler_int_saved", "handler_exc_saved"} -> 1
    [] OTHER -> 0

Running == pc \notin {"idle", "done"}

\* Every step of a run lowers the measure, the measure is never negative,
\* and a run that has not ended can take a step: every run ends.
RunsEnd == [](Rank >= 0 /\ (Running => ENABLED (Next /\ run' = run)))
           /\ [][Running => Rank' < Rank]_vars

\* One call of execute_graphql_with_retry issues at most max_retries
\* requests, whatever the responses are.
RequestBudget == Len(log) <= max_retries

\* The four endings of a run.
Finalized == Ended /\ outcome = "returned" /\ intAt = "none" /\ finalizerCalled
StoppedOnMissingPayload == Ended /\ loopExit = "break"
HandledInterruption == Ended /\ outcome = "returned" /\ intAt \in TryPcs
PropagatedFailure == Ended /\ outcome \in {"raised", "interrupt"}

Count(b) == IF b THEN 1 ELSE 0

\* A run whose loop was not left by the break of line 192 has exactly one
\* of the endings.
OneEndingWithoutBreak ==
  (Ended /\ loopExit # "break") =>
    Count(Finalized) + Count(HandledInterruption) + Count(PropagatedFailure) = 1

\* C19: every call of the executor issues at most max_retries requests,
\* and a run that has ended has ended in exactly one of: finalization, a
\* stop on a missing payload, a handled interruption, a propagated
\* failure.
C19_EndsInExactlyOneWay ==
  /\ RequestBudget
  /\ Ended =>
       Count(Finalized) + Count(StoppedOnMissingPayload)
         + Count(HandledInterruption) + Count(PropagatedFailure) = 1

====
